---- MODULE Spec2Model ----
(***************************************************************************)
(* A model of the research-support utilities of the sorrentum excerpt:     *)
(*   - the DaoCross order-matching optimizer (optimize_for_volume),        *)
(*   - the two-tier computation cache driven by the cache notebook,        *)
(*   - the data-source nodes (DiskDataSource, ArmaGenerator,               *)
(*     MultivariateNormalGenerator),                                       *)
(*   - the Telegram collaborator-management script,                        *)
(*   - the Telegram group-identifier script.                               *)
(* Each component has its own variables, its own initial predicate and its *)
(* own next-state relation; a component specification keeps the other      *)
(* components idle.                                                        *)
(***************************************************************************)
EXTENDS Integers, Sequences, FiniteSets, TLC

VARIABLES
    optArgs,      \* optimizer: [order_1, order_2, exchange_rate] of the call
    optStatus,    \* optimizer: "none" | "invalid_input" | "Optimal" | "Infeasible" | "Unbounded"
    optLpBuilt,   \* optimizer: whether the call built a pulp.LpProblem
    optSol,       \* optimizer: <<>> or <<[q1, q2, objective]>> of the solve
    cUseMem,      \* cache: use_mem_cache of the Cached object
    cUseDisk,     \* cache: use_disk_cache of the Cached object
    cMem,         \* cache: entries <<inputs, value>> of the memory tier
    cDisk,        \* cache: entries <<inputs, value>> of the disk tier
    cLast,        \* cache: get_last_cache_accessed(): "none" before any call
    cRet,         \* cache: <<>> or <<value>> returned by the last call
    cHist,        \* cache: the last four calls and clears, with the tier reported
    nKind,        \* node: "disk" | "arma" | "mvn"
    nCfg,         \* node: the constructor's arguments
    nDf,          \* node: self.df, <<>> or <<dataset>>
    nProduced,    \* node: number of file reads / sample generations that set self.df
    nScale,       \* node: _volatility_scale_factor as <<numerator, denominator>>
    nCalib,       \* node: number of times the scale factor was computed
    nSample,      \* node: <<>> or <<sample>> the dataset was generated from
    nLog,         \* node: the finished fit / predict calls, oldest first
    bArgs,        \* bot script: --action, --username, --groupid
    bPc,          \* bot script: "start" | "await_send" | "await_remove" | "done" | "failed" | "exited"
    bCalls,       \* bot script: the bot API calls issued, oldest first
    bCompleted,   \* bot script: number of awaited bot calls that returned
    bStep,        \* bot script: index of the awaited call of _remove_collaborator
    bErr,         \* bot script: "none" or the error that ended the run
    bInvite,      \* bot script: <<>> or <<[status, result]>> of the invite-link response
    gUpdates,     \* group script: data["result"] of the getUpdates response
    gPc,          \* group script: "start" | "done"
    gOut,         \* group script: the printed lines <<group id, last message>>
    kTemplate,    \* config builder: the configuration template
    kPath,        \* config builder: the parameter path of the variants mapping
    kValues,      \* config builder: the candidate values of that path, in order
    kConfigs,     \* config builder: the configurations returned
    kPc,          \* config builder: "start" | "done"
    hTest,        \* notebook harness: the test scenario being run
    hPc,          \* notebook harness: "start" | "running" | "exited" | "returned"
    hConfigs,     \* notebook harness: the configurations the runner iterates over
    hNext,        \* notebook harness: number of configurations handed to a worker
    hRunning,     \* notebook harness: indices of the configurations being executed
    hResults,     \* notebook harness: <<index, return code>> of the finished executions
    hError,       \* notebook harness: whether an execution error reached the runner
    hRc,          \* notebook harness: <<>> or <<return code>> of the runner process
    hRaised       \* notebook harness: "none" or the error system() raised in the test

optVars == <<optArgs, optStatus, optLpBuilt, optSol>>

cacheVars == <<cUseMem, cUseDisk, cMem, cDisk, cLast, cRet, cHist>>

nodeVars == <<nKind, nCfg, nDf, nProduced, nScale, nCalib, nSample, nLog>>

botVars == <<bArgs, bPc, bCalls, bCompleted, bStep, bErr, bInvite>>

groupVars == <<gUpdates, gPc, gOut>>

builderVars == <<kTemplate, kPath, kValues, kConfigs, kPc>>

harnessVars == <<hTest, hPc, hConfigs, hNext, hRunning, hResults, hError, hRc, hRaised>>

vars == <<optVars, cacheVars, nodeVars, botVars, groupVars, builderVars, harnessVars>>

\* Option values: Python's None is the empty sequence, a value x is <<x>>.
None == <<>>

Some(x) == <<x>>

Min(a, b) == IF a <= b THEN a ELSE b

(***************************************************************************)
(* DaoCross optimizer                                                      *)
(***************************************************************************)

\* Largest small order quantity the inputs are drawn from.
MaxQty == 3

\* Largest limit price / exchange rate the inputs are drawn from.
MaxPrice == 4

\* The "Big M" constant of optimize_for_volume.
BigM == 1000000

\* The quantity and the limit prices of get_test_orders and the notebook cells.
TestQuantity == 5

Actions == {"buy", "sell"}

\* Order quantities: small ones, the notebook's 5, and quantities at and above M.
\* Order.__init__ asserts nothing, so zero and negative quantities can be built.
Quantities == (-1..MaxQty) \cup {TestQuantity, BigM, BigM + 1, 2 * BigM}

LimitPrices == (1..MaxPrice) \cup {3, 5}

ExchangeRates == (-1..MaxPrice)

Orders == [action : Actions, quantity : Quantities, limit_price : LimitPrices]

\* hdbg.dassert_eq(order_1.action, "buy"); dassert_eq(order_2.action, "sell");
\* hdbg.dassert_lt(0, exchange_rate), accepting a zero exchange rate.
PreconditionsAllowZeroRate(order_1, order_2, exchange_rate) ==
    /\ order_1.action = "buy"
    /\ order_2.action = "sell"
    /\ 0 <= exchange_rate

\* hdbg.dassert_eq(order_1.action, "buy"); dassert_eq(order_2.action, "sell");
\* hdbg.dassert_lt(0, exchange_rate).
Preconditions(order_1, order_2, exchange_rate) ==
    /\ order_1.action = "buy"
    /\ order_2.action = "sell"
    /\ 0 < exchange_rate

\* int(exchange_rate <= order_1.limit_price)
LimitPriceCond1(order_1, exchange_rate) ==
    IF exchange_rate <= order_1.limit_price THEN 1 ELSE 0

\* int(exchange_rate >= order_2.limit_price)
LimitPriceCond2(order_2, exchange_rate) ==
    IF exchange_rate >= order_2.limit_price THEN 1 ELSE 0

\* The constraints with the slack of the quantity bounds subtracted instead of
\* added: q <= quantity - M*(1 - cond).
LpConstraintsSlackSubtracted(q1, q2, order_1, order_2, c1, c2) ==
    /\ q1 >= 0
    /\ q2 >= 0
    /\ q1 <= order_1.quantity - BigM * (1 - c1)
    /\ q2 <= order_2.quantity - BigM * (1 - c2)
    /\ q1 <= BigM * c1
    /\ q1 >= (0 - BigM) * c1
    /\ q2 <= BigM * c2
    /\ q2 >= (0 - BigM) * c2
    /\ q1 = q2

\* The constraints added to the problem, with the variables' lowBound=0.
LpConstraints(q1, q2, order_1, order_2, c1, c2) ==
    /\ q1 >= 0
    /\ q2 >= 0
    /\ q1 <= order_1.quantity + BigM * (1 - c1)
    /\ q2 <= order_2.quantity + BigM * (1 - c2)
    /\ q1 <= BigM * c1
    /\ q1 >= (0 - BigM) * c1
    /\ q2 <= BigM * c2
    /\ q2 >= (0 - BigM) * c2
    /\ q1 = q2

\* The right-hand sides of the bounds: an optimum of the linear program, when one
\* exists, lies where the line q1 = q2 meets one of these bounds.
LpVertexValues(order_1, order_2, c1, c2) ==
    { 0,
      order_1.quantity + BigM * (1 - c1),
      order_2.quantity + BigM * (1 - c2),
      BigM * c1, (0 - BigM) * c1,
      BigM * c2, (0 - BigM) * c2 }

LpFeasible(order_1, order_2, c1, c2) ==
    LET V == LpVertexValues(order_1, order_2, c1, c2)
    IN  { p \in V \X V : LpConstraints(p[1], p[2], order_1, order_2, c1, c2) }

\* The objective q1 + q2 grows without limit: the point of the line q1 = q2 beyond
\* every right-hand side satisfies the constraints, so no upper bound is active.
LpUnbounded(order_1, order_2, c1, c2) ==
    LET V == LpVertexValues(order_1, order_2, c1, c2)
        top == (CHOOSE x \in V : \A y \in V : y <= x) + 1
    IN  LpConstraints(top, top, order_1, order_2, c1, c2)

\* prob.solve() of the maximization of q1 + q2: status and optimal vertex.
LpSolve(order_1, order_2, c1, c2) ==
    LET F == LpFeasible(order_1, order_2, c1, c2)
    IN  IF LpUnbounded(order_1, order_2, c1, c2)
        THEN [status |-> "Unbounded", sol |-> None]
        ELSE IF F = {}
        THEN [status |-> "Infeasible", sol |-> None]
        ELSE LET best == CHOOSE p \in F : \A r \in F : r[1] + r[2] <= p[1] + p[2]
             IN  [status |-> "Optimal",
                  sol |-> Some([q1 |-> best[1], q2 |-> best[2],
                                objective |-> best[1] + best[2]])]

\* optimize_for_volume(order_1, order_2, exchange_rate), applied to the drawn inputs.
OptimizeForVolume ==
    /\ optStatus = "none"
    /\ LET order_1 == optArgs.order_1
           order_2 == optArgs.order_2
           exchange_rate == optArgs.exchange_rate
       IN  IF ~Preconditions(order_1, order_2, exchange_rate)
           THEN /\ optStatus' = "invalid_input"
                /\ optLpBuilt' = FALSE
                /\ optSol' = None
           ELSE LET c1 == LimitPriceCond1(order_1, exchange_rate)
                    c2 == LimitPriceCond2(order_2, exchange_rate)
                    r == LpSolve(order_1, order_2, c1, c2)
                IN  /\ optStatus' = r.status
                    /\ optLpBuilt' = TRUE
                    /\ optSol' = r.sol
    /\ UNCHANGED <<optArgs, cacheVars, nodeVars, botVars, groupVars, builderVars, harnessVars>>

\* The inputs of one call are drawn; nothing has been asserted, built or solved.
OptInit ==
    /\ optArgs \in [order_1 : Orders, order_2 : Orders, exchange_rate : ExchangeRates]
    /\ optStatus = "none"
    /\ optLpBuilt = FALSE
    /\ optSol = None

(***************************************************************************)
(* Two-tier computation cache (hcac.Cached), as the cache notebook drives it *)
(***************************************************************************)

\* Largest first argument the calls are drawn from; the notebook calls with (1, 2).
MaxArg == 2

CacheInputs == { <<a, 2>> : a \in 1..MaxArg }

Tiers == {"mem", "disk"}

\* computation_function(a, b) of the notebook.
ComputationFunction(inputs) == inputs[1] * inputs[2]

\* The entries of a tier stored under the given arguments.
CacheEntries(store, inputs) == { e \in store : e[1] = inputs }

\* Tier resolution of one call, resolving the disk tier before the memory tier.
CacheResolveDiskFirst(useMem, useDisk, mem, disk, inputs) ==
    IF useDisk /\ CacheEntries(disk, inputs) # {} THEN "disk"
    ELSE IF useMem /\ CacheEntries(mem, inputs) # {} THEN "mem"
    ELSE "no_cache"

\* Tier resolution of one call: memory first, then disk, else recompute.
CacheResolve(useMem, useDisk, mem, disk, inputs) ==
    IF useMem /\ CacheEntries(mem, inputs) # {} THEN "mem"
    ELSE IF useDisk /\ CacheEntries(disk, inputs) # {} THEN "disk"
    ELSE "no_cache"

\* The value a call returns: the stored one on a hit, the recomputed one otherwise.
CacheValue(tier, mem, disk, inputs) ==
    IF tier = "mem" THEN (CHOOSE e \in CacheEntries(mem, inputs) : TRUE)[2]
    ELSE IF tier = "disk" THEN (CHOOSE e \in CacheEntries(disk, inputs) : TRUE)[2]
    ELSE ComputationFunction(inputs)

\* The memory tier after a call: a disk hit and a recompute populate it when enabled.
CacheMemAfter(useMem, tier, mem, inputs, value) ==
    IF useMem /\ tier # "mem" THEN mem \cup {<<inputs, value>>} ELSE mem

\* The disk tier after a call: a recompute populates it when enabled.
CacheDiskAfter(useDisk, tier, disk, inputs, value) ==
    IF useDisk /\ tier = "no_cache" THEN disk \cup {<<inputs, value>>} ELSE disk

\* clear_cache(which) clearing every tier whatever tier is named.
CacheClearedAll(store, tier, which) == {}

\* clear_cache(which): the named tier, or both with no argument ("all").
CacheCleared(store, tier, which) ==
    IF which = tier \/ which = "all" THEN {} ELSE store

\* The last four events of the run, the newest last.
LastFour(h) == IF Len(h) > 4 THEN SubSeq(h, Len(h) - 3, Len(h)) ELSE h

\* cached(*inputs) followed by get_last_cache_accessed().
CacheCall(inputs) ==
    LET tier == CacheResolve(cUseMem, cUseDisk, cMem, cDisk, inputs)
        value == CacheValue(tier, cMem, cDisk, inputs)
    IN  /\ cLast' = tier
        /\ cRet' = Some(value)
        /\ cMem' = CacheMemAfter(cUseMem, tier, cMem, inputs, value)
        /\ cDisk' = CacheDiskAfter(cUseDisk, tier, cDisk, inputs, value)
        /\ cHist' = LastFour(Append(cHist,
                        [op |-> "call", inputs |-> Some(inputs), tier |-> tier]))
        /\ UNCHANGED <<cUseMem, cUseDisk, optVars, nodeVars, botVars, groupVars, builderVars, harnessVars>>

\* cached.clear_cache(which)
CacheClear(which) ==
    /\ cMem' = CacheCleared(cMem, "mem", which)
    /\ cDisk' = CacheCleared(cDisk, "disk", which)
    /\ cHist' = LastFour(Append(cHist,
                    [op |-> "clear", inputs |-> None, tier |-> which]))
    /\ UNCHANGED <<cUseMem, cUseDisk, cLast, cRet, optVars, nodeVars, botVars, groupVars, builderVars, harnessVars>>

\* hcac.Cached(func, use_mem_cache=..., use_disk_cache=...): the memory tier of a
\* fresh process is empty, the disk tier holds whatever earlier runs left.
CacheInit ==
    /\ cUseMem \in BOOLEAN
    /\ cUseDisk \in BOOLEAN
    /\ cMem = {}
    /\ cDisk \in SUBSET { <<i, ComputationFunction(i)>> : i \in CacheInputs }
    /\ cLast = "none"
    /\ cRet = None
    /\ cHist = <<>>

(***************************************************************************)
(* Data-source nodes: DiskDataSource, ArmaGenerator,                       *)
(* MultivariateNormalGenerator                                             *)
(***************************************************************************)

\* Timestamps of the file's index and the date bounds are drawn from 1..MaxTs.
MaxTs == 3

\* Largest number of rows of the file.
MaxRows == 2

\* Largest number of fit / predict calls on one node.
MaxCalls == 3

\* Number of periods of the generators' date range (start = 1, end = NumPeriods).
NumPeriods == 2

\* Largest target and realized volatility.
MaxVol == 2

\* The constant volume of the generated datasets.
ConstantVolume == 100

RECURSIVE SeqsUpTo(_, _)
\* The sequences over S of length at most n.
SeqsUpTo(S, n) ==
    IF n = 0 THEN {<<>>}
    ELSE LET shorter == SeqsUpTo(S, n - 1)
         IN  shorter \cup { Append(q, x) : q \in {r \in shorter : Len(r) = n - 1}, x \in S }

NodeKinds == {"disk", "arma", "mvn"}

Extensions == {".csv", ".pq", ".txt", ""}

OptionalDates == {None} \cup { Some(t) : t \in 1..MaxTs }

\* DiskDataSource(nid, file_path, timestamp_col, start_date, end_date): the file
\* is given by its extension, whether it can be read, and the timestamps of its
\* index column in file order.
DiskConfigs ==
    [ext : Extensions, readable : BOOLEAN, rows : SeqsUpTo(1..MaxTs, MaxRows),
     start_date : OptionalDates, end_date : OptionalDates]

\* ArmaGenerator(nid, frequency, start_date, end_date, ...)
ArmaConfigs == {[start_date |-> Some(1), end_date |-> Some(NumPeriods)]}

\* MultivariateNormalGenerator(nid, frequency, start_date, end_date, dim,
\* target_volatility, seed), one series drawn.
MvnConfigs ==
    [start_date : {Some(1)}, end_date : {Some(NumPeriods)},
     target_volatility : {None} \cup { Some(v) : v \in 1..MaxVol }]

\* generate_sample(...): a return per period of the date range, together with the
\* annualized volatility compute_annualized_volatility finds in it.
Samples == [rets : [1..NumPeriods -> {-1, 1}], vol : 1..MaxVol]

\* dbg.dassert_strictly_increasing_index
StrictlyIncreasing(index) ==
    \A i \in 1..(Len(index) - 1) : index[i] < index[i+1]

\* A timestamp lies in the inclusive window [start_date, end_date]; None is open.
InWindow(t, start_date, end_date) ==
    /\ (start_date = None \/ start_date[1] <= t)
    /\ (end_date = None \/ t <= end_date[1])

\* df.loc[start_date : end_date] on a sorted index: both ends included.
SliceLoc(index, start_date, end_date) ==
    LET keep(t) == InWindow(t, start_date, end_date)
    IN  SelectSeq(index, keep)

\* rets.cumsum()
CumSum(rets) ==
    [i \in 1..Len(rets) |->
        LET RECURSIVE upto(_)
            upto(k) == IF k = 0 THEN 0 ELSE upto(k - 1) + rets[k]
        IN  upto(i)]

\* Equality of two fractions <<numerator, denominator>>.
RatEq(a, b) == a[1] * b[2] = b[1] * a[2]

\* DiskDataSource._read_data: the extension selects the reader; self.df is set
\* to what the reader returns.
ReadData(cfg) ==
    IF cfg.ext \notin {".csv", ".pq"}
    THEN [err |-> "Invalid file extension", df |-> None]
    ELSE IF ~cfg.readable
    THEN [err |-> "read failed", df |-> None]
    ELSE [err |-> "none", df |-> Some([index |-> cfg.rows])]

\* DiskDataSource._process_data with the index assertion placed after the slice.
ProcessDataSliceFirst(df, cfg) ==
    LET sliced == [index |-> SliceLoc(df.index, cfg.start_date, cfg.end_date)]
    IN  IF sliced.index = <<>>
        THEN [err |-> "Dataframe is empty", df |-> sliced]
        ELSE IF ~StrictlyIncreasing(sliced.index)
        THEN [err |-> "index not strictly increasing", df |-> sliced]
        ELSE [err |-> "none", df |-> sliced]

\* DiskDataSource._process_data: the index is asserted strictly increasing, then
\* self.df is replaced by its slice, then the slice is asserted non-empty.
ProcessData(df, cfg) ==
    IF ~StrictlyIncreasing(df.index)
    THEN [err |-> "index not strictly increasing", df |-> df]
    ELSE LET sliced == [index |-> SliceLoc(df.index, cfg.start_date, cfg.end_date)]
         IN  IF sliced.index = <<>>
             THEN [err |-> "Dataframe is empty", df |-> sliced]
             ELSE [err |-> "none", df |-> sliced]

\* DiskDataSource._lazy_load without the `if self.df is not None: return` guard.
DiskLazyLoadNoGuard(df, cfg) ==
    LET r == ReadData(cfg)
    IN  IF r.err # "none"
        THEN [err |-> r.err, df |-> df, produced |-> FALSE]
        ELSE LET q == ProcessData(r.df[1], cfg)
             IN  [err |-> q.err, df |-> Some(q.df), produced |-> TRUE]

\* DiskDataSource._lazy_load: the error raised (or "none"), self.df afterwards,
\* and whether the file was read.
DiskLazyLoad(df, cfg) ==
    IF df # None
    THEN [err |-> "none", df |-> df, produced |-> FALSE]
    ELSE LET r == ReadData(cfg)
         IN  IF r.err # "none"
             THEN [err |-> r.err, df |-> df, produced |-> FALSE]
             ELSE LET q == ProcessData(r.df[1], cfg)
                  IN  [err |-> q.err, df |-> Some(q.df), produced |-> TRUE]

\* ArmaGenerator._lazy_load: prices = exp(0.1 * rets.cumsum()), held by the
\* exponent's numerator over 10; the slice; the constant vol column.
ArmaLazyLoad(df, cfg, sample) ==
    IF df # None
    THEN [err |-> "none", df |-> df, produced |-> FALSE]
    ELSE LET index == [i \in 1..NumPeriods |-> i]
             kept == SliceLoc(index, cfg.start_date, cfg.end_date)
             logclose == CumSum(sample.rets)
         IN  [err |-> "none",
              df |-> Some([index |-> kept,
                           close |-> [i \in 1..Len(kept) |-> <<logclose[kept[i]], 10>>],
                           vol |-> ConstantVolume]),
              produced |-> TRUE]

\* MultivariateNormalGenerator._generate_returns: the volatility scale factor
\* afterwards, the factor the returns are multiplied by, and whether the factor
\* was computed by this call.
GenerateReturns(fit, cfg, sample, scale) ==
    IF cfg.target_volatility = None
    THEN [scale |-> scale, applied |-> <<1, 1>>, calibrated |-> FALSE]
    ELSE IF fit
    THEN LET new == <<cfg.target_volatility[1], sample.vol>>
         IN  [scale |-> new, applied |-> new, calibrated |-> TRUE]
    ELSE [scale |-> scale, applied |-> scale, calibrated |-> FALSE]

\* The close prices exp((rets * factor).cumsum()), held by the exponents as
\* fractions.
ScaledLogClose(rets, factor) ==
    LET c == CumSum(rets)
    IN  [i \in 1..Len(rets) |-> <<c[i] * factor[1], factor[2]>>]

\* MultivariateNormalGenerator._lazy_load
MvnLazyLoad(df, cfg, sample, scale, fit) ==
    IF df # None
    THEN [err |-> "none", df |-> df, produced |-> FALSE,
          scale |-> scale, calibrated |-> FALSE]
    ELSE LET g == GenerateReturns(fit, cfg, sample, scale)
             index == [i \in 1..NumPeriods |-> i]
             kept == SliceLoc(index, cfg.start_date, cfg.end_date)
             logclose == ScaledLogClose(sample.rets, g.applied)
         IN  [err |-> "none",
              df |-> Some([index |-> kept,
                           close |-> [i \in 1..Len(kept) |-> logclose[kept[i]]],
                           volume |-> ConstantVolume]),
              produced |-> TRUE, scale |-> g.scale, calibrated |-> g.calibrated]

\* DataSource.fit of the base class: the stored dataset under the output name,
\* nothing when there is none.
BaseFit(df) == df

\* DataSource.predict of the base class: likewise.
BasePredict(df) == df

\* One finished call: what was called, the error it raised, the dataset it
\* returned, and whether it read the file or drew a sample.
LogEntry(call, err, ret, produced) ==
    [call |-> call, err |-> err, ret |-> ret, produced |-> produced]

\* The node's state after a call that ran _lazy_load with result l.
NodeAfter(call, l, ret) ==
    /\ nDf' = l.df
    /\ nProduced' = nProduced + (IF l.produced THEN 1 ELSE 0)
    /\ nLog' = Append(nLog, LogEntry(call, l.err, IF l.err = "none" THEN ret ELSE None,
                                     l.produced))

\* fit() of the node
NodeFit ==
    /\ Len(nLog) < MaxCalls
    /\ \/ /\ nKind = "disk"
          /\ LET l == DiskLazyLoad(nDf, nCfg)
             IN  NodeAfter("fit", l, BaseFit(l.df))
          /\ UNCHANGED <<nScale, nCalib, nSample>>
       \/ /\ nKind = "arma"
          /\ \E sample \in Samples :
                LET l == ArmaLazyLoad(nDf, nCfg, sample)
                IN  /\ NodeAfter("fit", l, BaseFit(l.df))
                    /\ nSample' = IF l.produced THEN Some(sample) ELSE nSample
          /\ UNCHANGED <<nScale, nCalib>>
       \/ /\ nKind = "mvn"
          /\ \E sample \in Samples :
                LET l == MvnLazyLoad(nDf, nCfg, sample, nScale, TRUE)
                IN  /\ NodeAfter("fit", l, BaseFit(l.df))
                    /\ nSample' = IF l.produced THEN Some(sample) ELSE nSample
                    /\ nScale' = l.scale
                    /\ nCalib' = nCalib + (IF l.calibrated THEN 1 ELSE 0)
    /\ UNCHANGED <<nKind, nCfg, optVars, cacheVars, botVars, groupVars, builderVars, harnessVars>>

\* predict() of the node: DiskDataSource inherits the base class's predict.
NodePredict ==
    /\ Len(nLog) < MaxCalls
    /\ \/ /\ nKind = "disk"
          /\ nLog' = Append(nLog, LogEntry("predict", "none", BasePredict(nDf), FALSE))
          /\ UNCHANGED <<nDf, nProduced, nScale, nCalib, nSample>>
       \/ /\ nKind = "arma"
          /\ \E sample \in Samples :
                LET l == ArmaLazyLoad(nDf, nCfg, sample)
                IN  /\ NodeAfter("predict", l, BasePredict(l.df))
                    /\ nSample' = IF l.produced THEN Some(sample) ELSE nSample
          /\ UNCHANGED <<nScale, nCalib>>
       \/ /\ nKind = "mvn"
          /\ \E sample \in Samples :
                LET l == MvnLazyLoad(nDf, nCfg, sample, nScale, FALSE)
                IN  /\ NodeAfter("predict", l, BasePredict(l.df))
                    /\ nSample' = IF l.produced THEN Some(sample) ELSE nSample
                    /\ nScale' = l.scale
                    /\ nCalib' = nCalib + (IF l.calibrated THEN 1 ELSE 0)
    /\ UNCHANGED <<nKind, nCfg, optVars, cacheVars, botVars, groupVars, builderVars, harnessVars>>

\* The node after construction: self.df is None, the scale factor is 1.
NodeInit ==
    /\ nKind \in NodeKinds
    /\ nCfg \in (IF nKind = "disk" THEN DiskConfigs
                 ELSE IF nKind = "arma" THEN ArmaConfigs ELSE MvnConfigs)
    /\ nDf = None
    /\ nProduced = 0
    /\ nScale = <<1, 1>>
    /\ nCalib = 0
    /\ nSample = None
    /\ nLog = <<>>

(***************************************************************************)
(* Telegram collaborator-management script (process_telegram_collaborator) *)
(***************************************************************************)

\* Number of user names the --username flag is drawn from.
MaxUsers == 3

\* Number of group ids the --groupid flag is drawn from.
MaxGroups == 2

Users == { <<"user", i>> : i \in 1..MaxUsers }

Groups == { <<"group", i>> : i \in 1..MaxGroups }

\* Values given to --action on the command line; "promote" is not a declared one.
ActionValues == {"add", "remove", "unban", "promote"}

\* choices=["add", "remove", "unban"] of the --action flag.
ActionChoices == {"add", "remove", "unban"}

\* parser.parse_args(): a value outside the declared choices ends the run with
\* the parser's usage error.
ParseArgs(action) == IF action \in ActionChoices THEN "parsed" ELSE "usage error"

\* The if / elif / else of main with "unban" routed to the removal.
DispatchUnbanRemoves(action) ==
    IF action = "add" THEN "invite"
    ELSE IF action \in {"remove", "unban"} THEN "remove"
    ELSE "Invalid action"

\* The if / elif / else of main.
Dispatch(action) ==
    IF action = "add" THEN "invite"
    ELSE IF action = "remove" THEN "remove"
    ELSE "Invalid action"

\* _remove_collaborator with the two calls in the other order.
RemoveStepsUnbanFirst == <<"unbanChatMember", "banChatMember">>

\* _remove_collaborator: the bot calls it awaits, in order.
RemoveSteps == <<"banChatMember", "unbanChatMember">>

\* One call of the bot API.
ApiCall(api, chat_id, arg) == [api |-> api, chat_id |-> chat_id, arg |-> arg]

\* _get_invate_link with invite_link = None set before the status test: a status
\* other than 200 returns None.
GetInvateLinkDefaultsToNone(status, result) ==
    IF status = 200
    THEN [err |-> "none", link |-> result]
    ELSE [err |-> "none", link |-> None]

\* _get_invate_link: invite_link is bound only when the status is 200; returning
\* it unbound raises UnboundLocalError. response.json().get("result") is the link
\* or None.
GetInvateLink(status, result) ==
    IF status = 200
    THEN [err |-> "none", link |-> result]
    ELSE [err |-> "UnboundLocalError", link |-> None]

\* main up to its first await: parse the flags, dispatch on the action, and
\* issue the first bot call of the chosen action.
BotMain ==
    /\ bPc = "start"
    /\ IF ParseArgs(bArgs.action) # "parsed"
       THEN /\ bPc' = "exited"
            /\ bErr' = ParseArgs(bArgs.action)
            /\ UNCHANGED <<bCalls, bStep, bInvite>>
       ELSE LET d == Dispatch(bArgs.action)
            IN  \/ /\ d = "invite"
                   /\ \E status \in {200, 400}, result \in {None, Some("link")} :
                         LET g == GetInvateLink(status, result)
                             asked == ApiCall("exportChatInviteLink", bArgs.groupid, None)
                         IN  /\ bInvite' = Some([status |-> status, result |-> result])
                             /\ IF g.err # "none"
                                THEN /\ bPc' = "failed"
                                     /\ bErr' = g.err
                                     /\ bCalls' = Append(bCalls, asked)
                                ELSE /\ bPc' = "await_send"
                                     /\ bErr' = "none"
                                     /\ bCalls' = bCalls \o
                                           <<asked,
                                             ApiCall("sendMessage", bArgs.username, g.link)>>
                   /\ UNCHANGED bStep
                \/ /\ d = "remove"
                   /\ bPc' = "await_remove"
                   /\ bStep' = 1
                   /\ bCalls' = Append(bCalls,
                         ApiCall(RemoveSteps[1], bArgs.groupid, Some(bArgs.username)))
                   /\ UNCHANGED <<bErr, bInvite>>
                \/ /\ d = "Invalid action"
                   /\ bPc' = "failed"
                   /\ bErr' = "Invalid action"
                   /\ UNCHANGED <<bCalls, bStep, bInvite>>
    /\ UNCHANGED <<bArgs, bCompleted, optVars, cacheVars, nodeVars, groupVars, builderVars, harnessVars>>

\* await bot.send_message(...) finishes: a message, None, or an exception;
\* hdbg.dassert_is_not(message, None).
BotSendMessageDone ==
    /\ bPc = "await_send"
    /\ \E outcome \in {"message", "None", "raise"} :
          \/ /\ outcome = "message"
             /\ bPc' = "done"
             /\ bCompleted' = bCompleted + 1
             /\ UNCHANGED bErr
          \/ /\ outcome = "None"
             /\ bPc' = "failed"
             /\ bErr' = "AssertionError"
             /\ bCompleted' = bCompleted + 1
          \/ /\ outcome = "raise"
             /\ bPc' = "failed"
             /\ bErr' = "TelegramError"
             /\ UNCHANGED bCompleted
    /\ UNCHANGED <<bArgs, bCalls, bStep, bInvite, optVars, cacheVars, nodeVars, groupVars, builderVars, harnessVars>>

\* An awaited call of _remove_collaborator finishes: the next call is issued, the
\* coroutine returns after the last one, or the call's exception ends the run.
BotRemoveStepDone ==
    /\ bPc = "await_remove"
    /\ \E outcome \in {"ok", "raise"} :
          \/ /\ outcome = "ok"
             /\ bCompleted' = bCompleted + 1
             /\ IF bStep < Len(RemoveSteps)
                THEN /\ bStep' = bStep + 1
                     /\ bCalls' = Append(bCalls,
                           ApiCall(RemoveSteps[bStep + 1], bArgs.groupid,
                                   Some(bArgs.username)))
                     /\ UNCHANGED bPc
                ELSE /\ bPc' = "done"
                     /\ UNCHANGED <<bStep, bCalls>>
             /\ UNCHANGED bErr
          \/ /\ outcome = "raise"
             /\ bPc' = "failed"
             /\ bErr' = "TelegramError"
             /\ UNCHANGED <<bCompleted, bStep, bCalls>>
    /\ UNCHANGED <<bArgs, bInvite, optVars, cacheVars, nodeVars, groupVars, builderVars, harnessVars>>

\* One run of the script: the flags are given, nothing has been called.
BotInit ==
    /\ bArgs \in [action : ActionValues, username : Users, groupid : Groups]
    /\ bPc = "start"
    /\ bCalls = <<>>
    /\ bCompleted = 0
    /\ bStep = 0
    /\ bErr = "none"
    /\ bInvite = None

(***************************************************************************)
(* Telegram group-identifier script (get_telegram_groupid)                 *)
(***************************************************************************)

\* Largest number of updates one getUpdates response holds.
MaxUpdates == 3

\* Number of chats the updates come from.
MaxChats == 2

\* Number of message texts.
MaxTexts == 2

ChatIds == 1..MaxChats

Texts == { <<"text", i>> : i \in 1..MaxTexts }

\* The shapes of an update _get_group_info tells apart: whether it has a
\* message, whether the message has a chat (and its id), whether it has a text.
Updates ==
    [message : {FALSE}, chat : {None}, text : {None}]
        \cup [message : {TRUE},
              chat : {None} \cup { Some(c) : c \in ChatIds },
              text : {None} \cup { Some(t) : t \in Texts }]

\* group_messages[chat_id] = text on a dict that keeps the first text of a chat.
DictSetKeepFirst(d, key, value) ==
    IF \E i \in 1..Len(d) : d[i][1] = key THEN d ELSE Append(d, <<key, value>>)

\* group_messages[chat_id] = text on a dict held as its items in insertion
\* order: an existing key keeps its place and takes the new value.
DictSet(d, key, value) ==
    IF \E i \in 1..Len(d) : d[i][1] = key
    THEN [i \in 1..Len(d) |-> IF d[i][1] = key THEN <<key, value>> ELSE d[i]]
    ELSE Append(d, <<key, value>>)

\* The body of the loop over data["result"] for one update.
LoopBody(d, update) ==
    IF update.message /\ update.chat # None
    THEN IF update.text # None THEN DictSet(d, update.chat[1], update.text[1]) ELSE d
    ELSE d

RECURSIVE GroupMessages(_, _)
\* group_messages after the loop over the first n updates.
GroupMessages(updates, n) ==
    IF n = 0 THEN <<>>
    ELSE LoopBody(GroupMessages(updates, n - 1), updates[n])

\* _get_group_info(): one printed line <<group_id, last_message>> per item of
\* group_messages.
GetGroupInfo ==
    /\ gPc = "start"
    /\ gPc' = "done"
    /\ gOut' = GroupMessages(gUpdates, Len(gUpdates))
    /\ UNCHANGED <<gUpdates, optVars, cacheVars, nodeVars, botVars, builderVars, harnessVars>>

\* The getUpdates response is given; nothing has been printed.
GroupInit ==
    /\ gUpdates \in SeqsUpTo(Updates, MaxUpdates)
    /\ gPc = "start"
    /\ gOut = <<>>

(***************************************************************************)
(* Configuration builder and notebook-execution test harness               *)
(***************************************************************************)

\* Largest number of candidate values the variants mapping gives to its path.
MaxCandidates == 5

ConfigKeys == {"fail", "x"}

\* Configuration templates: "fail" is a placeholder, "x" is absent, a placeholder
\* or set.
Templates ==
    [{"fail"} -> {None}]
        \cup { t \in [ConfigKeys -> {None} \cup { Some(b) : b \in BOOLEAN }] :
                 t["fail"] = None }

\* The parameter paths of a template that hold a placeholder, as tuples of keys.
PlaceholderPaths(config_template) ==
    { <<k>> : k \in { j \in DOMAIN config_template : config_template[j] = None } }

\* config_template = cfg.Config(); config_template["fail"] = None
ConfigTemplate == [k \in {"fail"} |-> None]

\* The candidate values build_configs gives to the path ("fail",).
FailFlags == <<FALSE, FALSE, TRUE, FALSE, FALSE>>

\* cfgb.build_multiple_configs(config_template, {path: values}): one configuration
\* per candidate value, in candidate order, the template with the path set to it.
BuildMultipleConfigs(config_template, path, values) ==
    [i \in 1..Len(values) |-> [config_template EXCEPT ![path[1]] = Some(values[i])]]

\* for i, config in enumerate(configs): config["id"] = 0
EnumerateIdsAllZero(configs) ==
    [i \in 1..Len(configs) |->
        [k \in DOMAIN configs[i] \cup {"id"} |->
            IF k = "id" THEN 0 ELSE configs[i][k]]]

\* for i, config in enumerate(configs): config["id"] = i
EnumerateIds(configs) ==
    [i \in 1..Len(configs) |->
        [k \in DOMAIN configs[i] \cup {"id"} |->
            IF k = "id" THEN i - 1 ELSE configs[i][k]]]

\* build_configs()
BuildConfigs == EnumerateIds(BuildMultipleConfigs(ConfigTemplate, <<"fail">>, FailFlags))

\* The builder applied to the drawn template and variants mapping, followed by the
\* identifier loop of build_configs.
BuilderBuild ==
    /\ kPc = "start"
    /\ kConfigs' = EnumerateIds(BuildMultipleConfigs(kTemplate, kPath, kValues))
    /\ kPc' = "done"
    /\ UNCHANGED <<kTemplate, kPath, kValues, optVars, cacheVars, nodeVars, botVars,
                   groupVars, harnessVars>>

BuilderInit ==
    /\ kTemplate \in Templates
    /\ kPath \in PlaceholderPaths(kTemplate)
    /\ kValues \in SeqsUpTo(BOOLEAN, MaxCandidates)
    /\ kConfigs = <<>>
    /\ kPc = "start"

TestNames == {"test_main1", "test_main2", "test_main3"}

\* The flags of every test's command line passing --skip_on_error.
TestCommandsAllSkipOnError ==
    [t \in TestNames |->
        [skip_on_error |-> TRUE,
         num_threads |-> IF t = "test_main1" THEN 1 ELSE 3]]

\* The flags of each test's run_notebook.py command line.
TestCommands ==
    [t \in TestNames |->
        [skip_on_error |-> t \in {"test_main1", "test_main2"},
         num_threads |-> IF t = "test_main1" THEN 1 ELSE 3]]

\* The return code of executing the test notebook on one configuration: the
\* notebook fails on the configuration flagged to fail.
RunNotebook(config) == IF config["fail"] = Some(TRUE) THEN 1 ELSE 0

\* si.system(cmd): raises RuntimeError when the process returns non-zero.
System(rc) == IF rc # 0 THEN "RuntimeError" ELSE "none"

\* run_notebook.py starts: it evaluates --function to get the configurations.
RunnerStart ==
    /\ hPc = "start"
    /\ hPc' = "running"
    /\ hConfigs' = BuildConfigs
    /\ UNCHANGED <<hTest, hNext, hRunning, hResults, hError, hRc, hRaised,
                   optVars, cacheVars, nodeVars, botVars, groupVars, builderVars>>

\* A free worker thread takes the next configuration, in order.
WorkerStart ==
    /\ hPc = "running"
    /\ ~hError
    /\ hNext < Len(hConfigs)
    /\ Cardinality(hRunning) < TestCommands[hTest].num_threads
    /\ hNext' = hNext + 1
    /\ hRunning' = hRunning \cup {hNext + 1}
    /\ UNCHANGED <<hTest, hPc, hConfigs, hResults, hError, hRc, hRaised,
                   optVars, cacheVars, nodeVars, botVars, groupVars, builderVars>>

\* A worker's notebook execution ends: with --skip_on_error a failure is only
\* logged, without it the failure is raised to the runner.
WorkerFinish ==
    /\ hPc = "running"
    /\ \E i \in hRunning :
          LET rc == RunNotebook(hConfigs[i])
          IN  /\ hRunning' = hRunning \ {i}
              /\ hResults' = hResults \cup {<<i, rc>>}
              /\ hError' = (hError \/ (rc # 0 /\ ~TestCommands[hTest].skip_on_error))
    /\ UNCHANGED <<hTest, hPc, hConfigs, hNext, hRc, hRaised,
                   optVars, cacheVars, nodeVars, botVars, groupVars, builderVars>>

\* The runner process ends: normally once every configuration was executed, with a
\* failure as soon as an error reached it (executions still running are abandoned).
RunnerExit ==
    /\ hPc = "running"
    /\ \/ hError
       \/ hNext = Len(hConfigs) /\ hRunning = {}
    /\ hRc' = Some(IF hError THEN 1 ELSE 0)
    /\ hPc' = "exited"
    /\ UNCHANGED <<hTest, hConfigs, hNext, hRunning, hResults, hError, hRaised,
                   optVars, cacheVars, nodeVars, botVars, groupVars, builderVars>>

\* si.system(cmd) returns to the test, or raises.
SystemReturn ==
    /\ hPc = "exited"
    /\ hRaised' = System(hRc[1])
    /\ hPc' = "returned"
    /\ UNCHANGED <<hTest, hConfigs, hNext, hRunning, hResults, hError, hRc,
                   optVars, cacheVars, nodeVars, botVars, groupVars, builderVars>>

HarnessInit ==
    /\ hTest \in TestNames
    /\ hPc = "start"
    /\ hConfigs = <<>>
    /\ hNext = 0
    /\ hRunning = {}
    /\ hResults = {}
    /\ hError = FALSE
    /\ hRc = None
    /\ hRaised = "none"

(***************************************************************************)
(* Specifications: one per component, the other components idle            *)
(***************************************************************************)

OptIdle ==
    /\ optArgs = None
    /\ optStatus = "none"
    /\ optLpBuilt = FALSE
    /\ optSol = None

CacheIdle ==
    /\ cUseMem = TRUE
    /\ cUseDisk = TRUE
    /\ cMem = {}
    /\ cDisk = {}
    /\ cLast = "none"
    /\ cRet = None
    /\ cHist = <<>>

NodeIdle ==
    /\ nKind = "arma"
    /\ nCfg = [start_date |-> Some(1), end_date |-> Some(NumPeriods)]
    /\ nDf = None
    /\ nProduced = 0
    /\ nScale = <<1, 1>>
    /\ nCalib = 0
    /\ nSample = None
    /\ nLog = <<>>

BotIdle ==
    /\ bArgs = [action |-> "add", username |-> <<"user", 1>>, groupid |-> <<"group", 1>>]
    /\ bPc = "start"
    /\ bCalls = <<>>
    /\ bCompleted = 0
    /\ bStep = 0
    /\ bErr = "none"
    /\ bInvite = None

GroupIdle ==
    /\ gUpdates = <<>>
    /\ gPc = "start"
    /\ gOut = <<>>

BuilderIdle ==
    /\ kTemplate = ConfigTemplate
    /\ kPath = <<"fail">>
    /\ kValues = <<>>
    /\ kConfigs = <<>>
    /\ kPc = "start"

HarnessIdle ==
    /\ hTest = "test_main1"
    /\ hPc = "start"
    /\ hConfigs = <<>>
    /\ hNext = 0
    /\ hRunning = {}
    /\ hResults = {}
    /\ hError = FALSE
    /\ hRc = None
    /\ hRaised = "none"

InitOpt == OptInit /\ CacheIdle /\ NodeIdle /\ BotIdle /\ GroupIdle
    /\ BuilderIdle /\ HarnessIdle

NextOpt == OptimizeForVolume

SpecOpt == InitOpt /\ [][NextOpt]_vars

InitCache == CacheInit /\ OptIdle /\ NodeIdle /\ BotIdle /\ GroupIdle
    /\ BuilderIdle /\ HarnessIdle

NextCache ==
    \/ \E inputs \in CacheInputs : CacheCall(inputs)
    \/ \E which \in Tiers \cup {"all"} : CacheClear(which)

SpecCache == InitCache /\ [][NextCache]_vars

InitNode == NodeInit /\ OptIdle /\ CacheIdle /\ BotIdle /\ GroupIdle
    /\ BuilderIdle /\ HarnessIdle

NextNode == NodeFit \/ NodePredict

SpecNode == InitNode /\ [][NextNode]_vars

InitBot == BotInit /\ OptIdle /\ CacheIdle /\ NodeIdle /\ GroupIdle
    /\ BuilderIdle /\ HarnessIdle

NextBot == BotMain \/ BotSendMessageDone \/ BotRemoveStepDone

SpecBot == InitBot /\ [][NextBot]_vars

InitGroup == GroupInit /\ OptIdle /\ CacheIdle /\ NodeIdle /\ BotIdle
    /\ BuilderIdle /\ HarnessIdle

NextGroup == GetGroupInfo

SpecGroup == InitGroup /\ [][NextGroup]_vars

InitBuilder == BuilderInit /\ OptIdle /\ CacheIdle /\ NodeIdle /\ BotIdle /\ GroupIdle
    /\ HarnessIdle

NextBuilder == BuilderBuild

SpecBuilder == InitBuilder /\ [][NextBuilder]_vars

InitHarness == HarnessInit /\ OptIdle /\ CacheIdle /\ NodeIdle /\ BotIdle /\ GroupIdle
    /\ BuilderIdle

NextHarness == RunnerStart \/ WorkerStart \/ WorkerFinish \/ RunnerExit \/ SystemReturn

SpecHarness == InitHarness /\ [][NextHarness]_vars

(***************************************************************************)
(* Properties                                                              *)
(***************************************************************************)

\* Both limit-price conditions of the call hold (both comparisons inclusive).
BothLimitPriceConditions ==
    /\ optArgs.exchange_rate <= optArgs.order_1.limit_price
    /\ optArgs.exchange_rate >= optArgs.order_2.limit_price

\* The call was solved for a buy and a sell order of positive quantities.
SolvedPositiveQuantities ==
    /\ optStatus \notin {"none", "invalid_input"}
    /\ optArgs.order_1.quantity > 0
    /\ optArgs.order_2.quantity > 0

\* The executed quantities are both `expected` and the objective is their sum.
ExecutedQuantitiesAre(expected) ==
    /\ optSol # None
    /\ optSol[1].q1 = expected
    /\ optSol[1].q2 = expected
    /\ optSol[1].objective = optSol[1].q1 + optSol[1].q2

\* C1: for every buy order, sell order (each of positive quantity) and exchange
\* rate > 0, the solved quantities are q1 = q2 = min(quantity_1, quantity_2) when
\* both limit-price conditions hold and q1 = q2 = 0 otherwise, and the objective
\* is q1 + q2.
C1_ExecutedVolumeIsMinOrZero ==
    SolvedPositiveQuantities =>
        ExecutedQuantitiesAre(
            IF BothLimitPriceConditions
            THEN Min(optArgs.order_1.quantity, optArgs.order_2.quantity)
            ELSE 0)

\* C1 restricted to orders of which the smaller quantity is at most M: the
\* executed quantity is then the claimed one (with both quantities above M the
\* bound q <= M * cond caps the executed quantity at M).
ExecutedVolumeWithinBigM ==
    (/\ SolvedPositiveQuantities
     /\ Min(optArgs.order_1.quantity, optArgs.order_2.quantity) <= BigM)
        => ExecutedQuantitiesAre(
               IF BothLimitPriceConditions
               THEN Min(optArgs.order_1.quantity, optArgs.order_2.quantity)
               ELSE 0)

\* The notebook's first scenario: quantities 5/5, limits 5/3, rate 4 gives 5, 5, 10.
NotebookScenarioSolved ==
    (/\ optStatus = "Optimal"
     /\ optArgs.order_1 = [action |-> "buy", quantity |-> 5, limit_price |-> 5]
     /\ optArgs.order_2 = [action |-> "sell", quantity |-> 5, limit_price |-> 3]
     /\ optArgs.exchange_rate = 4)
        => optSol = Some([q1 |-> 5, q2 |-> 5, objective |-> 10])

\* C7: a call whose order_1 is not a buy, whose order_2 is not a sell or whose
\* exchange rate is not strictly positive ends in the invalid-input error, and no
\* linear program has been built or solved by it.
C7_InvalidInputRejectedBeforeSolve ==
    (/\ optStatus # "none"
     /\ \/ optArgs.order_1.action # "buy"
        \/ optArgs.order_2.action # "sell"
        \/ optArgs.exchange_rate <= 0)
        => /\ optStatus = "invalid_input"
           /\ ~optLpBuilt
           /\ optSol = None

\* C7 witness: a buy and a sell order at exchange rate 0 have been rejected.
C7_Witness ==
    /\ optStatus = "invalid_input"
    /\ optArgs.order_1.action = "buy"
    /\ optArgs.order_2.action = "sell"
    /\ optArgs.exchange_rate = 0
    /\ ~optLpBuilt

\* The event is a call with the given inputs.
IsCallOf(e, inputs) == e.op = "call" /\ e.inputs = Some(inputs)

\* The event clears the given tier (by name, or by clearing all tiers).
ClearsTier(e, tier) == e.op = "clear" /\ e.tier \in {tier, "all"}

\* C2: with both tiers enabled and the same arguments each time, the call that
\* follows a clear of all tiers reports no_cache, the call that immediately
\* repeats a call reports mem, and the call that follows clear_cache("mem") reports
\* disk when an earlier call of the run computed the value or read it from disk
\* and the disk tier has not been cleared since.
C2_FullCacheTierSequence ==
    (cUseMem /\ cUseDisk) =>
        \A i \in 1..Len(cHist) : \A inputs \in CacheInputs :
            IsCallOf(cHist[i], inputs) =>
                /\ (i > 1 /\ cHist[i-1].op = "clear" /\ cHist[i-1].tier = "all")
                       => cHist[i].tier = "no_cache"
                /\ (i > 1 /\ IsCallOf(cHist[i-1], inputs))
                       => cHist[i].tier = "mem"
                /\ (/\ i > 2
                    /\ cHist[i-1].op = "clear" /\ cHist[i-1].tier = "mem"
                    /\ \E j \in 1..(i-2) :
                           /\ IsCallOf(cHist[j], inputs)
                           /\ cHist[j].tier \in {"no_cache", "disk"}
                           /\ \A k \in (j+1)..(i-2) : ~ClearsTier(cHist[k], "disk"))
                       => cHist[i].tier = "disk"

\* C2 witness: the notebook's sequence: a computed call, a repeat served from
\* memory, clear_cache("mem"), and the same call served from disk.
C2_Witness ==
    /\ cUseMem /\ cUseDisk
    /\ Len(cHist) = 4
    /\ IsCallOf(cHist[1], <<1, 2>>) /\ cHist[1].tier = "no_cache"
    /\ IsCallOf(cHist[2], <<1, 2>>) /\ cHist[2].tier = "mem"
    /\ cHist[3].op = "clear" /\ cHist[3].tier = "mem"
    /\ IsCallOf(cHist[4], <<1, 2>>) /\ cHist[4].tier = "disk"
    /\ cLast = "disk"
    /\ cRet = Some(2)

\* The i-th finished call is the node's first fit call.
IsFirstFit(i) ==
    /\ nLog[i].call = "fit"
    /\ \A j \in 1..(i - 1) : nLog[j].call # "fit"

\* The file's extension has a reader and the reader returns the file's rows.
FileLoads == nCfg.ext \in {".csv", ".pq"} /\ nCfg.readable

\* Some timestamp of the file's index is not later than its predecessor.
FileIndexNotIncreasing ==
    \E k \in 1..(Len(nCfg.rows) - 1) : nCfg.rows[k] >= nCfg.rows[k+1]

\* No row of the file lies in the inclusive window [start_date, end_date].
WindowSelectsNoRow ==
    \A k \in 1..Len(nCfg.rows) :
        \/ (nCfg.start_date # None /\ nCfg.rows[k] < nCfg.start_date[1])
        \/ (nCfg.end_date # None /\ nCfg.rows[k] > nCfg.end_date[1])

\* C3: over any sequence of fit and predict calls on one node, the dataset is
\* produced (file read, sample generated) at most once: a generator's first call
\* and a disk source's first fit of a loadable file produce it, and every call
\* after the producing one produces nothing, raises nothing and returns the
\* stored dataset, which is still the one the node holds.
C3_DatasetProducedAtMostOnce ==
    /\ nProduced <= 1
    /\ Cardinality({i \in 1..Len(nLog) : nLog[i].produced}) = nProduced
    /\ \A i \in 1..Len(nLog) :
          /\ (nKind # "disk" /\ i = 1) => nLog[i].produced
          /\ (nKind = "disk" /\ IsFirstFit(i) /\ FileLoads) => nLog[i].produced
          /\ nLog[i].produced =>
                \A j \in (i + 1)..Len(nLog) :
                    /\ ~nLog[j].produced
                    /\ nLog[j].err = "none"
                    /\ nLog[j].ret = nDf
                    /\ nDf # None

\* C3 witness: a disk source whose fit read the file and which was then asked
\* twice more, by fit and by predict, without reading again.
C3_Witness ==
    /\ nKind = "disk"
    /\ Len(nLog) = 3
    /\ nLog[1].call = "fit" /\ nLog[1].produced /\ nLog[1].err = "none"
    /\ nLog[2].call = "fit" /\ nLog[2].ret = nDf
    /\ nLog[3].call = "predict" /\ nLog[3].ret = nDf
    /\ nProduced = 1

\* C4: the first fit call of a DiskDataSource fails with the invalid-extension
\* error when the extension is neither .csv nor .pq; fails with the index
\* assertion, returns no dataset and leaves the loaded rows as they were read
\* when the loaded index is not strictly increasing; and fails with "Dataframe is
\* empty" when the index is strictly increasing and the inclusive window selects
\* no row.
C4_DiskFirstFitFailsFast ==
    nKind = "disk" =>
        \A i \in 1..Len(nLog) : IsFirstFit(i) =>
            /\ nCfg.ext \notin {".csv", ".pq"} =>
                  /\ nLog[i].err = "Invalid file extension"
                  /\ nLog[i].ret = None
            /\ (FileLoads /\ FileIndexNotIncreasing) =>
                  /\ nLog[i].err = "index not strictly increasing"
                  /\ nLog[i].ret = None
                  /\ nDf = Some([index |-> nCfg.rows])
            /\ (FileLoads /\ ~FileIndexNotIncreasing /\ WindowSelectsNoRow) =>
                  /\ nLog[i].err = "Dataframe is empty"
                  /\ nLog[i].ret = None

\* C4 witness: the first fit of a .csv file with index 2, 1 has failed on the
\* index assertion.
C4_Witness ==
    /\ nKind = "disk"
    /\ nCfg.ext = ".csv"
    /\ nCfg.rows = <<2, 1>>
    /\ Len(nLog) = 1
    /\ nLog[1].call = "fit"
    /\ nLog[1].err = "index not strictly increasing"
    /\ nLog[1].ret = None

\* The dataset has a strictly increasing, non-empty index that is the file's
\* index cut to the inclusive window [start_date, end_date].
ValidDiskDataset(df) ==
    /\ df.index # <<>>
    /\ \A k \in 1..(Len(df.index) - 1) : df.index[k] < df.index[k+1]
    /\ \A k \in 1..Len(df.index) :
          /\ (nCfg.start_date # None => nCfg.start_date[1] <= df.index[k])
          /\ (nCfg.end_date # None => df.index[k] <= nCfg.end_date[1])

\* C5: every dataset a DiskDataSource's fit or predict returns, also after an
\* earlier fit call raised, has a strictly increasing index, is non-empty and has
\* been sliced to [start_date, end_date].
C5_DiskReturnsOnlyValidDatasets ==
    nKind = "disk" =>
        \A i \in 1..Len(nLog) :
            nLog[i].ret # None => ValidDiskDataset(nLog[i].ret[1])

\* C5 restricted to nodes none of whose calls raised: what they return is valid.
DiskValidWhenNoCallRaised ==
    (nKind = "disk" /\ \A j \in 1..Len(nLog) : nLog[j].err = "none") =>
        \A i \in 1..Len(nLog) :
            nLog[i].ret # None => ValidDiskDataset(nLog[i].ret[1])

\* The dataset's close prices are those of the node's sample times the factor.
BuiltWithFactor(df, factor) ==
    /\ nSample # None
    /\ LET c == CumSum(nSample[1].rets)
       IN  \A k \in 1..Len(df.index) :
               RatEq(df.close[k], <<c[df.index[k]] * factor[1], factor[2]>>)

\* C6: for a MultivariateNormalGenerator with target_volatility set, in every
\* order of calls, once fit has been called the dataset a later predict returns
\* is built from the sample times target_volatility / realized volatility, the
\* factor calibrated in fit, and the factor is computed at most once.
C6_PredictUsesFactorCalibratedInFit ==
    (nKind = "mvn" /\ nCfg.target_volatility # None) =>
        /\ nCalib <= 1
        /\ \A i \in 1..Len(nLog) : \A j \in (i + 1)..Len(nLog) :
              (nLog[i].call = "fit" /\ nLog[j].call = "predict") =>
                  /\ nLog[j].ret # None
                  /\ RatEq(nScale, <<nCfg.target_volatility[1], nSample[1].vol>>)
                  /\ BuiltWithFactor(nLog[j].ret[1],
                                     <<nCfg.target_volatility[1], nSample[1].vol>>)

\* C6 restricted to nodes whose first call is fit: the claim's statement holds.
FitFirstUsesCalibratedFactor ==
    (/\ nKind = "mvn" /\ nCfg.target_volatility # None
     /\ Len(nLog) > 0 /\ nLog[1].call = "fit") =>
        /\ nCalib = 1
        /\ RatEq(nScale, <<nCfg.target_volatility[1], nSample[1].vol>>)
        /\ \A j \in 1..Len(nLog) :
              /\ nLog[j].ret # None
              /\ BuiltWithFactor(nLog[j].ret[1],
                                 <<nCfg.target_volatility[1], nSample[1].vol>>)

\* The bot API calls of the add action and of the remove action.
InviteApis == {"exportChatInviteLink", "sendMessage"}

RemovalApis == {"banChatMember", "unbanChatMember"}

\* The calls of a completed removal: ban, then unban, of the same group and user.
BanThenUnban ==
    << [api |-> "banChatMember", chat_id |-> bArgs.groupid, arg |-> Some(bArgs.username)],
       [api |-> "unbanChatMember", chat_id |-> bArgs.groupid, arg |-> Some(bArgs.username)] >>

\* C8: a run with action remove issues ban-chat-member for (group, user) and,
\* only after the ban has returned, unban-chat-member for the same (group, user);
\* it requests no invite link and sends no message; when the ban raises, unban is
\* never issued; and no run issues calls of both the add and the remove action.
C8_RemoveBansThenUnbans ==
    /\ bArgs.action = "remove" =>
          /\ Len(bCalls) <= 2
          /\ bCalls = SubSeq(BanThenUnban, 1, Len(bCalls))
          /\ bPc # "start" => Len(bCalls) >= 1
          /\ Len(bCalls) = 2 => bCompleted >= 1
          /\ (bPc = "failed" /\ bCompleted = 0) => Len(bCalls) = 1
          /\ bPc = "done" => (Len(bCalls) = 2 /\ bCompleted = 2)
    /\ ~(\E i, k \in 1..Len(bCalls) :
            bCalls[i].api \in InviteApis /\ bCalls[k].api \in RemovalApis)
    /\ bArgs.action = "add" => \A i \in 1..Len(bCalls) : bCalls[i].api \in InviteApis

\* C8 witness: a removal whose ban raised has ended with the ban as its only call.
C8_Witness ==
    /\ bArgs.action = "remove"
    /\ bPc = "failed"
    /\ bErr = "TelegramError"
    /\ bCompleted = 0
    /\ Len(bCalls) = 1
    /\ bCalls[1].api = "banChatMember"

\* C9 as stated: for --action unban and for any action value other than add and
\* remove, the run ends in the "Invalid action" error and makes no bot API call.
C9_AnyOtherActionIsInvalidAction ==
    (bArgs.action \notin {"add", "remove"} /\ bPc # "start") =>
        /\ bErr = "Invalid action"
        /\ bCalls = <<>>

\* C9 amended: --action unban ends in main's "Invalid action" error; an action
\* value outside the declared choices add, remove, unban ends in the argument
\* parser's usage error before main dispatches; neither makes a bot API call.
C9_UnhandledActionsMakeNoBotCall ==
    bArgs.action \notin {"add", "remove"} =>
        /\ bCalls = <<>>
        /\ bCompleted = 0
        /\ bPc \in {"start", "failed", "exited"}
        /\ (bPc # "start" /\ bArgs.action = "unban") =>
              (bPc = "failed" /\ bErr = "Invalid action")
        /\ (bPc # "start" /\ bArgs.action \notin {"add", "remove", "unban"}) =>
              (bPc = "exited" /\ bErr = "usage error")

\* C9 witness: a run with --action unban has ended in "Invalid action".
C9_Witness ==
    /\ bArgs.action = "unban"
    /\ bPc = "failed"
    /\ bErr = "Invalid action"
    /\ bCalls = <<>>

\* The positions of the updates of chat c that carry a text.
TextUpdatesOf(c) ==
    { i \in 1..Len(gUpdates) :
        /\ gUpdates[i].message
        /\ gUpdates[i].chat = Some(c)
        /\ gUpdates[i].text # None }

\* The largest element of a non-empty set of numbers.
Largest(S) == CHOOSE x \in S : \A y \in S : y <= x

\* C10: for any sequence of updates, exactly one line is printed per chat that
\* has an update with a text, its text is the text of the last such update of the
\* chat, and no line is printed for a chat without one; a later update without a
\* text changes nothing.
C10_OneLinePerChatWithLastText ==
    gPc = "done" =>
        /\ \A k \in 1..Len(gOut) : gOut[k][1] \in ChatIds
        /\ \A c \in ChatIds :
              LET lines == { k \in 1..Len(gOut) : gOut[k][1] = c }
              IN  IF TextUpdatesOf(c) = {}
                  THEN lines = {}
                  ELSE /\ Cardinality(lines) = 1
                       /\ \A k \in lines :
                             gOut[k][2] = gUpdates[Largest(TextUpdatesOf(c))].text[1]

\* C10 witness: chat 1 sent two texts and then an update without text; the one
\* line printed carries the second text.
C10_Witness ==
    /\ gPc = "done"
    /\ Len(gUpdates) = 3
    /\ gUpdates[1] = [message |-> TRUE, chat |-> Some(1), text |-> Some(<<"text", 1>>)]
    /\ gUpdates[2] = [message |-> TRUE, chat |-> Some(1), text |-> Some(<<"text", 2>>)]
    /\ gUpdates[3] = [message |-> TRUE, chat |-> Some(1), text |-> None]
    /\ gOut = << <<1, <<"text", 2>>>> >>

(***************************************************************************)
(* Notebook-execution harness                                              *)
(***************************************************************************)

\* The indices of the configurations whose execution finished.
ExecutedConfigs == { r[1] : r \in hResults }

\* The indices of the configurations whose execution failed.
FailedConfigs == { r[1] : r \in { q \in hResults : q[2] # 0 } }

\* C11: with the 5-configuration set of build_configs (one configuration flagged to
\* fail), the runs with --skip_on_error (test_main1 with 1 worker thread,
\* test_main2 with 3) execute all five configurations, the process returns 0 and
\* system() raises nothing, whatever the order in which the workers start and
\* finish; the run of test_main3 (3 threads, no --skip_on_error) ends with
\* system() raising RuntimeError; no run stops before system() has returned.
C11_SkipOnErrorCompletesElseRuntimeError ==
    LET cmd == TestCommands[hTest]
    IN  /\ hTest \in {"test_main1", "test_main2"} =>
              /\ cmd.skip_on_error
              /\ cmd.num_threads = (IF hTest = "test_main1" THEN 1 ELSE 3)
              /\ hPc = "returned" =>
                    /\ hRaised = "none"
                    /\ hRc = Some(0)
                    /\ ExecutedConfigs = 1..5
                    /\ Cardinality(FailedConfigs) = 1
        /\ hTest = "test_main3" =>
              /\ ~cmd.skip_on_error
              /\ cmd.num_threads = 3
              /\ hPc = "returned" => hRaised = "RuntimeError"
        /\ Cardinality(hRunning) <= cmd.num_threads
        /\ hPc # "returned" => ENABLED NextHarness

\* The 3-thread run with --skip_on_error has returned: the flagged configuration
\* failed, all five were executed and nothing was raised.
C11_Witness ==
    /\ hTest = "test_main2"
    /\ hPc = "returned"
    /\ hRaised = "none"
    /\ ExecutedConfigs = 1..5
    /\ FailedConfigs = {3}

\* The flagged configuration fails while two other executions are still running.
FailureWhileOthersRun ==
    /\ hTest = "test_main2"
    /\ <<3, 1>> \in hResults
    /\ Cardinality(hRunning) = 2

\* The run of test_main3 has returned with RuntimeError.
PropagatedFailureRaised ==
    /\ hTest = "test_main3"
    /\ hPc = "returned"
    /\ hRaised = "RuntimeError"

(***************************************************************************)
(* Configuration builder                                                   *)
(***************************************************************************)

\* The drawn template and variants mapping are those of build_configs.
IsBuildConfigsInput ==
    /\ kTemplate = ConfigTemplate
    /\ kPath = <<"fail">>
    /\ kValues = FailFlags

\* C12: from a template and a mapping of one path to N candidate values the builder
\* returns exactly N configurations, in candidate order: the i-th holds the i-th
\* candidate at the path, equals the template at every other key of the template,
\* has no further key but the identifier, and is tagged with the identifier i-1,
\* so that no two configurations are equal even when their candidates are; for the
\* input of build_configs, N = 5 and exactly one configuration has fail = True.
C12_BuilderEmitsOneTaggedConfigPerCandidate ==
    kPc = "done" =>
        LET N == Len(kValues)
            key == kPath[1]
        IN  /\ Len(kConfigs) = N
            /\ \A i \in 1..N :
                  /\ DOMAIN kConfigs[i] = DOMAIN kTemplate \cup {"id"}
                  /\ kConfigs[i][key] = Some(kValues[i])
                  /\ \A k \in DOMAIN kTemplate \ {key} : kConfigs[i][k] = kTemplate[k]
                  /\ kConfigs[i]["id"] = i - 1
            /\ \A i, j \in 1..N : i # j => kConfigs[i] # kConfigs[j]
            /\ IsBuildConfigsInput =>
                  /\ kConfigs = BuildConfigs
                  /\ N = 5
                  /\ Cardinality({ i \in 1..N : kConfigs[i]["fail"] = Some(TRUE) }) = 1

\* The builder has run on the input of build_configs: five configurations, several
\* with the same candidate value, the third one flagged to fail.
C12_Witness ==
    /\ kPc = "done"
    /\ IsBuildConfigsInput
    /\ Len(kConfigs) = 5
    /\ kConfigs[1]["fail"] = kConfigs[2]["fail"]
    /\ kConfigs[3]["fail"] = Some(TRUE)

\* The builder has run on a template with a second key that is already set.
BuiltFromTemplateWithSetKey ==
    /\ kPc = "done"
    /\ DOMAIN kTemplate = ConfigKeys
    /\ kTemplate["x"] # None
    /\ Len(kConfigs) >= 2

(***************************************************************************)
(* Collaborator-management script: the invite-link response                *)
(***************************************************************************)

\* The add action got an invite-link response with a status other than 200.
InviteLinkNot200 ==
    /\ bArgs.action = "add"
    /\ bInvite # None
    /\ bInvite[1].status # 200

\* The send-message calls issued so far.
SendMessageCalls == { i \in 1..Len(bCalls) : bCalls[i].api = "sendMessage" }

\* C13 as stated: when the export-chat-invite-link call returns a status other
\* than 200, the invite-link helper raises no error and the add action goes on to
\* the send-message step with the undefined link.
C13_Non200GoesOnToSendMessage ==
    InviteLinkNot200 =>
        /\ bErr # "UnboundLocalError"
        /\ \E i \in SendMessageCalls : bCalls[i].arg = None

\* C13, amended: when the export-chat-invite-link call returns a status other than
\* 200, the helper's result is never assigned and its return statement raises
\* UnboundLocalError: the run ends there, the invite-link request is the only call
\* made, no send-message is issued and no bot call is awaited.
C13_Non200RaisesAtHelperReturn ==
    InviteLinkNot200 =>
        /\ bPc = "failed"
        /\ bErr = "UnboundLocalError"
        /\ Len(bCalls) = 1
        /\ bCalls[1] = ApiCall("exportChatInviteLink", bArgs.groupid, None)
        /\ SendMessageCalls = {}
        /\ bCompleted = 0

\* The add action has ended at the helper after a non-200 response.
C13_Witness ==
    /\ InviteLinkNot200
    /\ bPc = "failed"
    /\ bErr = "UnboundLocalError"
    /\ SendMessageCalls = {}

\* A 200 response whose result is absent does reach send-message with no link.
SendMessageWithoutLink ==
    /\ bArgs.action = "add"
    /\ bInvite # None
    /\ bInvite[1].status = 200
    /\ \E i \in SendMessageCalls : bCalls[i].arg = None

(***************************************************************************)
(* Cache tier resolution                                                   *)
(***************************************************************************)

\* The tier a call repeating the previous call's arguments reports.
RepeatTier == IF cUseMem THEN "mem" ELSE IF cUseDisk THEN "disk" ELSE "no_cache"

\* A tier, when enabled, holds the entry of the given arguments.
PopulatedIfEnabled(enabled, store, inputs) ==
    enabled => <<inputs, ComputationFunction(inputs)>> \in store

\* C14: a call reports only an enabled tier; the call that immediately repeats a
\* call reports mem when the memory tier is enabled (also right after a disk hit:
\* the disk hit populated the memory tier), disk when only the disk tier is
\* enabled; memory is consulted first, so with the memory tier enabled a repeat
\* after clear_cache("disk") still reports mem; and right after a call that
\* recomputed, every enabled tier holds the entry, right after a disk hit the
\* memory tier holds it when enabled.
C14_MemoryFirstThenDiskAndPopulation ==
    \A i \in 1..Len(cHist) : \A inputs \in CacheInputs :
        IsCallOf(cHist[i], inputs) =>
            /\ cHist[i].tier = "mem" => cUseMem
            /\ cHist[i].tier = "disk" => cUseDisk
            /\ (i > 1 /\ IsCallOf(cHist[i-1], inputs)) => cHist[i].tier = RepeatTier
            /\ (/\ i > 2
                /\ cUseMem
                /\ cHist[i-1].op = "clear" /\ cHist[i-1].tier = "disk"
                /\ IsCallOf(cHist[i-2], inputs))
                   => cHist[i].tier = "mem"
            /\ (i = Len(cHist) /\ cHist[i].tier = "no_cache") =>
                   /\ PopulatedIfEnabled(cUseMem, cMem, inputs)
                   /\ PopulatedIfEnabled(cUseDisk, cDisk, inputs)
                   /\ cRet = Some(ComputationFunction(inputs))
            /\ (i = Len(cHist) /\ cHist[i].tier = "disk") =>
                   /\ PopulatedIfEnabled(cUseMem, cMem, inputs)
                   /\ cRet = Some(ComputationFunction(inputs))

\* With both tiers enabled, a call served from disk is immediately followed by the
\* same call served from memory.
C14_Witness ==
    /\ cUseMem /\ cUseDisk
    /\ \E i \in 2..Len(cHist) :
          /\ IsCallOf(cHist[i], <<1, 2>>) /\ cHist[i].tier = "mem"
          /\ IsCallOf(cHist[i-1], <<1, 2>>) /\ cHist[i-1].tier = "disk"

\* The notebook's memory-only check: a computed call, then a repeat from memory.
MemoryOnlyRepeatReportsMem ==
    /\ cUseMem /\ ~cUseDisk
    /\ Len(cHist) = 2
    /\ IsCallOf(cHist[1], <<1, 2>>) /\ cHist[1].tier = "no_cache"
    /\ IsCallOf(cHist[2], <<1, 2>>) /\ cHist[2].tier = "mem"

\* The notebook's disk-only check: clear_cache("disk"), a computed call, then a
\* repeat from disk.
DiskOnlyRepeatReportsDisk ==
    /\ ~cUseMem /\ cUseDisk
    /\ Len(cHist) = 3
    /\ cHist[1].op = "clear" /\ cHist[1].tier = "disk"
    /\ IsCallOf(cHist[2], <<1, 2>>) /\ cHist[2].tier = "no_cache"
    /\ IsCallOf(cHist[3], <<1, 2>>) /\ cHist[3].tier = "disk"

(***************************************************************************)
(* DaoCross optimizer: feasibility and boundedness                         *)
(***************************************************************************)

\* The call passed the assertions and both orders ask for a non-negative quantity.
ValidCallNonNegativeQuantities ==
    /\ optStatus # "none"
    /\ optArgs.order_1.action = "buy"
    /\ optArgs.order_2.action = "sell"
    /\ optArgs.exchange_rate > 0
    /\ optArgs.order_1.quantity >= 0
    /\ optArgs.order_2.quantity >= 0

\* C15: for a buy and a sell order with non-negative quantities, any limit prices
\* and an exchange rate above 0, q1 = q2 = 0 satisfies every constraint of the
\* linear program and no constraint-satisfying point lies beyond all bounds, so
\* the solver status is Optimal, never Infeasible or Unbounded, and the solution
\* has 0 <= q1 = q2.
C15_LpFeasibleAndBounded ==
    ValidCallNonNegativeQuantities =>
        LET order_1 == optArgs.order_1
            order_2 == optArgs.order_2
            c1 == LimitPriceCond1(order_1, optArgs.exchange_rate)
            c2 == LimitPriceCond2(order_2, optArgs.exchange_rate)
        IN  /\ LpConstraints(0, 0, order_1, order_2, c1, c2)
            /\ ~LpUnbounded(order_1, order_2, c1, c2)
            /\ optLpBuilt
            /\ optStatus = "Optimal"
            /\ optSol # None
            /\ 0 <= optSol[1].q1
            /\ optSol[1].q1 = optSol[1].q2
            /\ optSol[1].objective = optSol[1].q1 + optSol[1].q2

\* A zero-quantity buy order against a sell order whose limit price is not met:
\* the program is solved with status Optimal at q1 = q2 = 0.
C15_Witness ==
    /\ ValidCallNonNegativeQuantities
    /\ optArgs.order_1.quantity = 0
    /\ optArgs.exchange_rate < optArgs.order_2.limit_price
    /\ optStatus = "Optimal"
    /\ optSol # None
    /\ optSol[1].q1 = 0
    /\ optSol[1].q2 = 0

\* Outside the claim's case: a negative quantity whose limit-price condition is met
\* makes the program infeasible.
NegativeQuantityInfeasible ==
    /\ optStatus = "Infeasible"
    /\ optArgs.order_1.quantity < 0
    /\ optArgs.exchange_rate <= optArgs.order_1.limit_price

====
